---- MODULE Spec2Model ----
(***************************************************************************)
(* Model of latex_history_anim.py: the driver `main` that walks the git    *)
(* history of a LaTeX file (checkout, build, rasterize, compose, save per  *)
(* commit, then restore and assemble an animation), and the two pure       *)
(* helpers pdf_to_png_pages (page collection) and compose_side_by_side     *)
(* (strip geometry, with Python's double-precision scaling arithmetic).    *)
(***************************************************************************)
EXTENDS Integers, Sequences, FiniteSets, TLC

VARIABLES
    \* ---- environment the run starts in ----
    repo_exists,     \* repo_path.exists()
    tools_ok,        \* git and pdftoppm are both on PATH
    tex_exists,      \* tex_abs.exists() in the starting working tree
    history,         \* what `git log --reverse -- tex` lists from the starting HEAD
    head0,           \* HEAD before the run: [branch, commit]
    max_pages,       \* args.max_pages
    keep_temp,       \* args.keep_temp
    \* ---- the repository and the file system ----
    head,            \* current HEAD: [branch |-> name or NoBranch, commit |-> hash]
    root_pdf,        \* the document of <repo>/<tex>.pdf, NoDoc = no such file
    workdir,         \* index of the commit whose temporary directory exists, 0 = none
    tmp_pdf,         \* TRUE when <workdir>/out/<tex>.pdf exists
    tmp_pages,       \* the files <workdir>/page-i.png: set of [page, doc]
    outfiles,        \* files in --out-dir: set of [name, content], the content being
                     \* a strip
    anim,            \* the file at --out
    \* ---- locals of main ----
    pc,
    original_branch,
    head_how,        \* which rev-parse call produced original_branch
    commits,
    idx,
    pdf_path,
    pages,
    composed_img,
    composed_pngs,
    frames,
    exit_code,
    exit_why,
    \* ---- observation of the run ----
    stage,           \* per commit: PENDING .. SAVED or SKIPPED
    event,           \* outcome of the last step
    ncheckouts,      \* git checkout invocations so far
    ncalls,          \* tool invocations during the current commit
    calls,           \* the tool runs and file checks of the current commit, in order
    restore_ok,      \* the restoring checkout returned successfully
    keep_temp_note,  \* the note of line 308 was logged
    \* ---- inputs and results of the helper functions checked on their own ----
    p_present, p_max_pages, p_result,
    c_images, c_max_pages, c_gap, c_result

envVars    == <<repo_exists, tools_ok, tex_exists, history, head0, max_pages, keep_temp>>
fsVars     == <<head, root_pdf, workdir, tmp_pdf, tmp_pages, outfiles, anim>>
localVars  == <<pc, original_branch, head_how, commits, idx, pdf_path, pages,
                composed_img, composed_pngs, frames, exit_code, exit_why>>
obsVars    == <<stage, event, ncheckouts, ncalls, calls, restore_ok>>
driverVars == <<envVars, fsVars, localVars, obsVars, keep_temp_note>>
pagesVars  == <<p_present, p_max_pages, p_result>>
composeVars == <<c_images, c_max_pages, c_gap, c_result>>
vars       == <<driverVars, pagesVars, composeVars>>

(***************************************************************************)
(* Bounds of the model.                                                    *)
(***************************************************************************)
MaxCommits   == 2      \* longest commit list
MaxPagesArg  == 1      \* largest --max-pages in the driver runs
MaxPageFiles == 1      \* largest page number pdftoppm writes in the driver runs
MaxPageIdx   == 4      \* largest page number present, helper runs
MaxCap       == 10     \* largest max_pages, helper runs
MaxImgs      == 3      \* longest image list, helper runs

(***************************************************************************)
(* Program constants.                                                      *)
(***************************************************************************)
MAX_HEIGHT == 1200     \* compose_side_by_side(max_height=1200)
DRIVER_GAP == 8        \* main passes gap=8
DEFAULT_GAP == 10      \* compose_side_by_side(gap=10)
LIMB == 13             \* bits per digit of the 1 + 4*13 = 53-bit significand of a float

(***************************************************************************)
(* Sequences helpers.                                                      *)
(***************************************************************************)
RECURSIVE SeqsUpTo(_, _)
SeqsUpTo(S, n) ==
    IF n = 0 THEN {<<>>}
    ELSE LET shorter == SeqsUpTo(S, n - 1)
         IN  shorter \cup {Append(s, x) : s \in {t \in shorter : Len(t) = n - 1}, x \in S}

Max2(a, b) == IF a >= b THEN a ELSE b

(***************************************************************************)
(* Python float arithmetic (IEEE-754 binary64, round to nearest, ties to   *)
(* even) on positive values.  A float is [d, top]: its 53-bit significand  *)
(* is the leading 1 followed by the four LIMB-bit digits d[1..4], and its  *)
(* value is (1 + d[1]/B + d[2]/B^2 + d[3]/B^3 + d[4]/B^4) * 2^top with     *)
(* B = 2^LIMB.  Operands are integers below 2^LIMB, the range of page      *)
(* sizes in pixels.                                                        *)
(***************************************************************************)
B == 2 ^ LIMB

\* number of binary digits of n >= 1
BitLen(n) == CHOOSE k \in 1..30 : 2 ^ (k - 1) <= n /\ n < 2 ^ k

\* significand + 1 unit in the last place
FloatInc(f) ==
    LET d == f.d
    IN  IF d[4] + 1 < B THEN [d |-> <<d[1], d[2], d[3], d[4] + 1>>, top |-> f.top]
        ELSE IF d[3] + 1 < B THEN [d |-> <<d[1], d[2], d[3] + 1, 0>>, top |-> f.top]
        ELSE IF d[2] + 1 < B THEN [d |-> <<d[1], d[2] + 1, 0, 0>>, top |-> f.top]
        ELSE IF d[1] + 1 < B THEN [d |-> <<d[1] + 1, 0, 0, 0>>, top |-> f.top]
        ELSE [d |-> <<0, 0, 0, 0>>, top |-> f.top + 1]

RoundNearestEven(f, guard, sticky) ==
    IF guard = 1 /\ (sticky \/ f.d[4] % 2 = 1) THEN FloatInc(f) ELSE f

\* a / float(b): the correctly rounded quotient, by long division
FloatDiv(a, b) ==
    LET la  == BitLen(a)
        lb  == BitLen(b)
        ge  == IF la <= lb THEN a * 2 ^ (lb - la) >= b ELSE a >= b * 2 ^ (la - lb)
        top == IF ge THEN la - lb ELSE la - lb - 1
        num == IF top <= 0 THEN a * 2 ^ (0 - top) ELSE a
        den == IF top <= 0 THEN b ELSE b * 2 ^ top
        r0  == num - den
        d1  == (r0 * B) \div den
        r1  == (r0 * B) % den
        d2  == (r1 * B) \div den
        r2  == (r1 * B) % den
        d3  == (r2 * B) \div den
        r3  == (r2 * B) % den
        d4  == (r3 * B) \div den
        r4  == (r3 * B) % den
        g   == (2 * r4) \div den
        r5  == (2 * r4) % den
    IN  RoundNearestEven([d |-> <<d1, d2, d3, d4>>, top |-> top], g, r5 # 0)

\* float(w) * f: the correctly rounded product
FloatMulInt(w, f) ==
    LET p4  == w * f.d[4]
        p3  == w * f.d[3] + p4 \div B
        p2  == w * f.d[2] + p3 \div B
        p1  == w * f.d[1] + p2 \div B
        hi  == w + p1 \div B
        l1  == p1 % B
        l2  == p2 % B
        l3  == p3 % B
        l4  == p4 % B
        s   == BitLen(hi) - 1          \* bits in excess of the 53 kept
        S   == 2 ^ s
        R   == B \div S
        e1  == (hi - S) * R + l1 \div S
        e2  == (l1 % S) * R + l2 \div S
        e3  == (l2 % S) * R + l3 \div S
        e4  == (l3 % S) * R + l4 \div S
        lost == l4 % S
        g   == IF s = 0 THEN 0 ELSE lost \div (S \div 2)
        st  == IF s = 0 THEN FALSE ELSE lost % (S \div 2) # 0
    IN  RoundNearestEven([d |-> <<e1, e2, e3, e4>>, top |-> f.top + s], g, st)

\* int(f): truncation toward zero
FloatToInt(f) ==
    IF f.top < 0 THEN 0
    ELSE IF f.top <= LIMB THEN (B + f.d[1]) \div 2 ^ (LIMB - f.top)
    ELSE ((B + f.d[1]) * B + f.d[2]) \div 2 ^ (2 * LIMB - f.top)

(***************************************************************************)
(* pdf_to_png_pages: the collection loop after the pdftoppm run.           *)
(* `present` is the set of i for which <out_prefix>-i.png exists.          *)
(***************************************************************************)
RECURSIVE pdf_to_png_pages_loop_continue(_, _, _, _)
\* variant: a missing page is passed over (`continue`) instead of ending the loop
pdf_to_png_pages_loop_continue(present, i, cap, produced) ==
    IF i > cap THEN produced
    ELSE IF i \in present
         THEN pdf_to_png_pages_loop_continue(present, i + 1, cap, Append(produced, i))
         ELSE pdf_to_png_pages_loop_continue(present, i + 1, cap, produced)

RECURSIVE pdf_to_png_pages_loop(_, _, _, _)
pdf_to_png_pages_loop(present, i, cap, produced) ==
    IF i > cap THEN produced
    ELSE IF i \in present
         THEN pdf_to_png_pages_loop(present, i + 1, cap, Append(produced, i))
         ELSE produced

pdf_to_png_pages(present, cap) == pdf_to_png_pages_loop(present, 1, cap, <<>>)

(***************************************************************************)
(* compose_side_by_side: geometry of the composed strip.                   *)
(* An image is [w, h]; the result is [kind |-> "image", w, h, scaled, xs]  *)
(* or [kind |-> "error", what].                                            *)
(***************************************************************************)
\* images[:max_pages] for max_pages >= 0
Slice(images, n) == SubSeq(images, 1, IF n < Len(images) THEN n ELSE Len(images))

\* lines 157-162: the size the image is resized to, before Image.resize checks it
scale_size(im, max_height) ==
    IF im.h > max_height
    THEN LET scale == FloatDiv(max_height, im.h)
         IN  [w |-> FloatToInt(FloatMulInt(im.w, scale)),
              h |-> FloatToInt(FloatMulInt(im.h, scale))]
    ELSE [w |-> im.w, h |-> im.h]

\* Image.resize raises ValueError("height and width must be > 0") on an empty size
resize_fails(im, max_height) ==
    /\ im.h > max_height
    /\ LET s == scale_size(im, max_height) IN s.w < 1 \/ s.h < 1

RECURSIVE SumWidths(_)
SumWidths(ims) == IF ims = <<>> THEN 0 ELSE Head(ims).w + SumWidths(Tail(ims))

RECURSIVE MaxHeight(_)
MaxHeight(ims) ==
    IF Len(ims) = 1 THEN ims[1].h ELSE Max2(Head(ims).h, MaxHeight(Tail(ims)))

RECURSIVE paste_positions(_, _, _)
\* lines 169-173: x offset of every pasted image
paste_positions(ims, x, gap) ==
    IF ims = <<>> THEN <<>>
    ELSE <<x>> \o paste_positions(Tail(ims), x + Head(ims).w + gap, gap)

\* variant: one gap per image instead of one gap between consecutive images
compose_side_by_side_gap_per_image(images, cap, max_height, gap) ==
    LET imgs == Slice(images, cap)
    IN  IF imgs = <<>> THEN [kind |-> "error", what |-> "No images to compose."]
        ELSE IF \E i \in 1..Len(imgs) : resize_fails(imgs[i], max_height)
        THEN [kind |-> "error", what |-> "height and width must be > 0"]
        ELSE LET scaled == [i \in 1..Len(imgs) |-> scale_size(imgs[i], max_height)]
             IN  [kind   |-> "image",
                  w      |-> SumWidths(scaled) + gap * Len(scaled),
                  h      |-> MaxHeight(scaled),
                  scaled |-> scaled,
                  xs     |-> paste_positions(scaled, 0, gap)]

compose_side_by_side(images, cap, max_height, gap) ==
    LET imgs == Slice(images, cap)
    IN  IF imgs = <<>> THEN [kind |-> "error", what |-> "No images to compose."]
        ELSE IF \E i \in 1..Len(imgs) : resize_fails(imgs[i], max_height)
        THEN [kind |-> "error", what |-> "height and width must be > 0"]
        ELSE LET scaled == [i \in 1..Len(imgs) |-> scale_size(imgs[i], max_height)]
             IN  [kind   |-> "image",
                  w      |-> SumWidths(scaled) + gap * (Len(scaled) - 1),
                  h      |-> MaxHeight(scaled),
                  scaled |-> scaled,
                  xs     |-> paste_positions(scaled, 0, gap)]

(***************************************************************************)
(* The repository: commit hashes, HEAD and the git commands main runs.     *)
(* A hash is <<first 8 characters, remaining characters>>; a reference is  *)
(* a hash, <<"HEAD">> or a branch name <<name>>.                           *)
(***************************************************************************)
\* the i-th commit that touched the tex file, oldest first.  Hashes are opaque, so
\* one list of distinct hashes stands for all; the first and the second share
\* their first 8 characters.
Hash(i) ==
    <<IF i <= 2 THEN "aaaaaaaa" ELSE "bbbbbbbb",
      <<"1", "2", "3", "4", "5", "6", "7", "8", "9">>[i]>>

OtherTip == <<"cccccccc", "0">>          \* a commit that did not touch it
Main     == <<"main">>
HeadsMain == <<"heads/main">>            \* the branch, spelled apart from a tag `main`
NoBranch == <<>>
HEADREF  == <<"HEAD">>

\* commit[:8]
short(commit) == commit[1]

\* the commit lists `git log --reverse -- tex` can print: distinct hashes, oldest first
Histories == {[i \in 1..n |-> Hash(i)] : n \in 0..MaxCommits}

\* git log walks back from HEAD, so HEAD is at the newest listed commit or at a
\* later commit that left the file alone
Tips(h) == {OtherTip} \cup (IF h = <<>> THEN {} ELSE {h[Len(h)]})

\* git rev-parse --abbrev-ref HEAD: the word HEAD when detached, else the
\* shortest unambiguous name of the branch: heads/<branch> when another ref
\* (a tag) has the name of the branch
rev_parse_abbrev_ref(h, ambiguous) ==
    IF h.branch = NoBranch THEN HEADREF
    ELSE IF ambiguous THEN HeadsMain
    ELSE h.branch

\* git rev-parse HEAD
rev_parse_HEAD(h) == h.commit

\* git checkout --quiet <ref>, when it succeeds: a branch name puts HEAD on the
\* branch, every other name of a commit (heads/<branch>, a hash) detaches it
git_checkout(h, ref) ==
    IF ref = HEADREF THEN h
    ELSE IF ref = Main THEN [branch |-> Main, commit |-> head0.commit]
    ELSE IF ref = HeadsMain THEN [branch |-> NoBranch, commit |-> head0.commit]
    ELSE [branch |-> NoBranch, commit |-> ref]

(***************************************************************************)
(* Documents: what a PDF, a page image, a strip or a frame shows.          *)
(***************************************************************************)
NoDoc    == [src |-> "none", of |-> 0]        \* no file
Before   == [src |-> "before", of |-> 0]      \* a file that was there before the run
Tracked  == [src |-> "tracked", of |-> 0]     \* a PDF committed to the repository
Built(i) == [src |-> "built", of |-> i]       \* written by the build of the i-th commit

\* git checkout rewrites the working tree: what a successful checkout of `ref`
\* can leave at <repo>/<stem>.pdf, which holds `file` before.  Which commits track
\* the PDF, and whether the repository ignores it, is an input of the run.  A
\* commit that does not track it, or tracks the same blob as the current one,
\* leaves the file alone; a commit that tracks it puts its version there (over
\* an untracked file only when the repository ignores the file); a commit that
\* does not track it removes the unmodified committed file of the current commit.
checkout_pdf(h, ref, file) ==
    IF git_checkout(h, ref).commit = h.commit THEN {file}
    ELSE {file, Tracked} \cup (IF file = Tracked THEN {NoDoc} ELSE {})

(***************************************************************************)
(* Values of the locals before they are assigned, paths and file contents. *)
(***************************************************************************)
NotExited == -1
NoRef     == <<>>
NoPath    == [dir |-> "none", of |-> 0]
NoImg     == [kind |-> "none"]
NoCalls   == [checkout |-> 0, latexmk |-> 0, pdflatex |-> 0, pdftoppm |-> 0]

\* workdir / pdf_name with workdir = repo_path, line 82
RootPdf   == [dir |-> "root", of |-> 0]

\* build_outdir / pdf_name in the temporary directory of the i-th commit, line 108
TmpPdf(i) == [dir |-> "tmp", of |-> i]

\* the file at --out: none, one from before the run, the frames written by
\* mimsave, or what a failing mimsave leaves behind
NoAnim    == [kind |-> "none", frames |-> <<>>]
OldAnim   == [kind |-> "before", frames |-> <<>>]
Written(fs) == [kind |-> "written", frames |-> fs]
Broken    == [kind |-> "broken", frames |-> <<>>]

\* a strip image: the iteration that composed it (0: not this run) and the
\* document its pages show
Strip(i, doc) == [by |-> i, doc |-> doc]

\* what a failing composed_img.save of the i-th iteration leaves in the file it
\* had opened: not an image of any document
Damaged(i) == [by |-> i, doc |-> NoDoc]

\* one entry of the record of tool runs: the tool (or "exists" for the
\* produced_pdf.exists() checks) and how it ended ("absent" when shutil.which
\* finds no executable and nothing is run)
Call(tool, result) == [tool |-> tool, result |-> result]

\* page images pdftoppm can write in the driver runs: an A4 page at 150 dpi and
\* a one-pixel-wide sliver taller than the strip
DriverSizes == {[w |-> 1240, h |-> 1754], [w |-> 1, h |-> 2400]}

\* variant: the name carries no position, only the abbreviated identifier
out_png_without_position(i, commit) == [idx |-> 0, short |-> short(commit)]

\* f"composed_{idx:04d}_{short}.png"
out_png(i, commit) == [idx |-> i, short |-> short(commit)]

\* the decimal digits of n, most significant first
RECURSIVE Digits(_)
Digits(n) ==
    LET DigitChar == <<"0", "1", "2", "3", "4", "5", "6", "7", "8", "9">>
    IN  IF n < 10 THEN <<DigitChar[n + 1]>>
        ELSE Digits(n \div 10) \o <<DigitChar[(n % 10) + 1]>>

\* the format specification 04d: at least four digits, padded with zeros on the left
Format04d(n) ==
    LET d == Digits(n)
    IN  IF Len(d) >= 4 THEN d ELSE [k \in 1..(4 - Len(d)) |-> "0"] \o d

\* the file name the path of a strip renders to, piece by piece
file_name(png) == <<"composed_">> \o Format04d(png.idx) \o <<"_", png.short, ".png">>

\* the file system after writing `content` to `name`
write_file(files, name, content) ==
    {f \in files : f.name # name} \cup {[name |-> name, content |-> content]}

\* imageio.imread(str(p)): the image in the file, or an exception
imread(files, name, readable) ==
    IF readable /\ \E f \in files : f.name = name
    THEN [raised |-> FALSE, img |-> (CHOOSE f \in files : f.name = name).content]
    ELSE [raised |-> TRUE]

\* lines 292-295: the frames collected when imread raises at the `bad`-th path
\* (0: at none beyond the files that are missing); the loop ends at the first
\* exception
RECURSIVE read_frames(_, _, _, _)
read_frames(files, names, bad, k) ==
    IF k > Len(names) THEN <<>>
    ELSE LET r == imread(files, names[k], k # bad)
         IN  IF r.raised THEN <<>>
             ELSE <<r.img>> \o read_frames(files, names, bad, k + 1)

\* the names under which a run over the commit list h saves its strips; of the
\* files in --out-dir the run reads and writes these and no other
strip_names(h) == {out_png(i, h[i]) : i \in 1..Len(h)}

\* a strip left in --out-dir by an earlier run under `name`
OldStrip(name) == [name |-> name, content |-> Strip(0, Before)]

\* what a successful checkout of `ref` can leave in --out-dir when the
\* directory lies in the repository (the default latex_history_out of a run
\* started in the repository does).  Which commit tracks which strip of an
\* earlier run (any commit can track any of them: the order of the list is not
\* the order in which the commits were made, after a merge or a graft), whether
\* a commit tracks a regular file under the name of the directory, and whether
\* the repository ignores the directory, is an input of the run.  So for every
\* strip name on its own the file is left alone (neither commit tracks it, or
\* both track the same blob), removed (the current commit tracks the bytes that
\* are there and the new one does not track the name, or the new commit puts a
\* file where the directory was) or replaced by the committed strip (the new
\* commit tracks the name; over a strip this run saved when the repository
\* ignores the file or the bytes are those of the current commit)
checkout_outdir(h, ref, files) ==
    IF git_checkout(h, ref).commit = h.commit THEN {files}
    ELSE UNION {{{f \in files : f.name \notin rewritten} \cup {OldStrip(n) : n \in put} :
                    put \in SUBSET rewritten} :
                rewritten \in SUBSET strip_names(history)}

\* what a successful checkout of `ref` can leave at --out when that file lies
\* in the repository and an animation of an earlier run is committed
checkout_anim(h, ref, file) ==
    IF git_checkout(h, ref).commit = h.commit THEN {file}
    ELSE {file, OldAnim} \cup (IF file = OldAnim THEN {NoAnim} ELSE {})

\* the PDF file at `path`
pdf_at(path) ==
    IF path.dir = "root" THEN root_pdf
    ELSE IF path.dir = "tmp" /\ path.of = workdir /\ tmp_pdf THEN Built(path.of)
    ELSE NoDoc

HelpersIdle ==
    /\ p_present = {} /\ p_max_pages = 0 /\ p_result = [done |-> TRUE, produced |-> <<>>]
    /\ c_images = <<>> /\ c_max_pages = 0 /\ c_gap = 0
    /\ c_result = [kind |-> "idle"]

(***************************************************************************)
(* Init: the state when main is entered.  The repository root may hold a   *)
(* PDF (committed, or left by an earlier run), --out-dir strips of an      *)
(* earlier run under any of the names of this run, and --out an animation  *)
(* of an earlier run; --keep-temp is given or not.                         *)
(***************************************************************************)
Init ==
    /\ repo_exists \in BOOLEAN
    /\ tools_ok \in BOOLEAN
    /\ tex_exists \in BOOLEAN
    /\ history \in Histories
    /\ head0 \in {[branch |-> b, commit |-> c] : b \in {Main, NoBranch}, c \in Tips(history)}
    /\ max_pages \in 0..MaxPagesArg
    /\ keep_temp \in BOOLEAN
    /\ head = head0
    /\ root_pdf \in {NoDoc, Before, Tracked}
    /\ workdir = 0
    /\ tmp_pdf = FALSE
    /\ tmp_pages = {}
    /\ outfiles \in {{OldStrip(n) : n \in old} : old \in SUBSET strip_names(history)}
    /\ anim \in {NoAnim, OldAnim}
    /\ pc = "start"
    /\ original_branch = NoRef
    /\ head_how = "none"
    /\ commits = <<>>
    /\ idx = 0
    /\ pdf_path = NoPath
    /\ pages = <<>>
    /\ composed_img = NoImg
    /\ composed_pngs = <<>>
    /\ frames = <<>>
    /\ exit_code = NotExited
    /\ exit_why = "running"
    /\ stage = <<>>
    /\ event = "none"
    /\ ncheckouts = 0
    /\ ncalls = NoCalls
    /\ calls = <<>>
    /\ restore_ok = FALSE
    /\ keep_temp_note = FALSE
    /\ HelpersIdle

Exit(code, why) == pc' = "done" /\ exit_code' = code /\ exit_why' = why
Goto(label)     == pc' = label /\ UNCHANGED <<exit_code, exit_why>>
Frame           == UNCHANGED <<envVars, pagesVars, composeVars, keep_temp_note>>

\* leaving the `with tempfile.TemporaryDirectory(...)` block removes the directory
cleanup_workdir == workdir' = 0 /\ tmp_pdf' = FALSE /\ tmp_pages' = {}

(***************************************************************************)
(* main, before the loop.                                                  *)
(***************************************************************************)
\* lines 194-197
CheckRepo ==
    /\ pc = "start"
    /\ IF repo_exists THEN Goto("tools") ELSE Exit(2, "repo_missing")
    /\ UNCHANGED <<fsVars, original_branch, head_how, commits, idx, pdf_path, pages,
                   composed_img, composed_pngs, frames, obsVars>>
    /\ Frame

\* variant: the tool check reports nothing and main goes on
ensure_tools_exist_silent ==
    /\ pc = "tools"
    /\ Goto("tex")
    /\ UNCHANGED <<fsVars, original_branch, head_how, commits, idx, pdf_path, pages,
                   composed_img, composed_pngs, frames, obsVars>>
    /\ Frame

\* line 199: ensure_tools_exist raises RuntimeError, which nothing catches
ensure_tools_exist ==
    /\ pc = "tools"
    /\ IF tools_ok THEN Goto("tex") ELSE Exit(1, "tools_missing")
    /\ UNCHANGED <<fsVars, original_branch, head_how, commits, idx, pdf_path, pages,
                   composed_img, composed_pngs, frames, obsVars>>
    /\ Frame

\* lines 201-205
CheckTex ==
    /\ pc = "tex"
    /\ IF tex_exists THEN Goto("record") ELSE Exit(2, "tex_missing")
    /\ UNCHANGED <<fsVars, original_branch, head_how, commits, idx, pdf_path, pages,
                   composed_img, composed_pngs, frames, obsVars>>
    /\ Frame

\* lines 207-217: remember the current branch/commit
RecordHead ==
    /\ pc = "record"
    /\ \E abbrev_ok \in BOOLEAN :
         IF abbrev_ok
         THEN /\ \E ambiguous \in BOOLEAN :
                    original_branch' = rev_parse_abbrev_ref(head, ambiguous)
              /\ head_how' = "abbrev-ref"
              /\ Goto("log")
         ELSE \E hash_ok \in BOOLEAN :
                IF hash_ok
                THEN /\ original_branch' = rev_parse_HEAD(head)
                     /\ head_how' = "hash"
                     /\ Goto("log")
                ELSE /\ UNCHANGED <<original_branch, head_how>>
                     /\ Exit(1, "rev_parse_failed")
    /\ UNCHANGED <<fsVars, commits, idx, pdf_path, pages,
                   composed_img, composed_pngs, frames, obsVars>>
    /\ Frame

\* lines 219-227 with get_commits_touching_file, lines 50-56; outdir.mkdir of
\* line 225 is outside every try
get_commits_touching_file ==
    /\ pc = "log"
    /\ \E log_ok \in BOOLEAN, mkdir_ok \in BOOLEAN :
         IF ~log_ok
         THEN /\ Exit(1, "git_log_failed")
              /\ UNCHANGED <<commits, stage>>
         ELSE /\ commits' = history
              /\ stage' = [i \in 1..Len(history) |-> "PENDING"]
              /\ IF history = <<>> THEN Exit(2, "no_commits")
                 ELSE IF ~mkdir_ok THEN Exit(1, "outdir_failed")
                 ELSE Goto("loop")
    /\ UNCHANGED <<fsVars, original_branch, head_how, idx, pdf_path, pages,
                   composed_img, composed_pngs, frames, event, ncheckouts, ncalls, calls,
                   restore_ok>>
    /\ Frame

(***************************************************************************)
(* main, the loop over the commits (lines 229-277).                        *)
(***************************************************************************)
\* variant: a dropped commit leaves its temporary directory behind
skip_commit_keep_workdir(why) ==
    /\ stage' = [stage EXCEPT ![idx] = "SKIPPED"]
    /\ event' = why
    /\ UNCHANGED <<workdir, tmp_pdf, tmp_pages>>
    /\ Goto("loop")

\* the `continue` statements, lines 247, 255, 259, 266: the commit is dropped,
\* the temporary directory is removed, the loop goes on
skip_commit(why) ==
    /\ stage' = [stage EXCEPT ![idx] = "SKIPPED"]
    /\ event' = why
    /\ cleanup_workdir
    /\ Goto("loop")

\* lines 229-231: next commit, or leave the loop.  pdf_path, pages and
\* composed_img keep the objects of the previous iteration until reassigned.
LoopNext ==
    /\ pc = "loop"
    /\ IF idx < Len(commits)
       THEN /\ idx' = idx + 1
            /\ event' = "processing"
            /\ Goto("checkout")
       ELSE /\ Goto("restore")
            /\ event' = "loop_done"
            /\ UNCHANGED idx
    /\ ncalls' = NoCalls
    /\ calls' = <<>>
    /\ UNCHANGED <<fsVars, original_branch, head_how, commits, pdf_path, pages, composed_img,
                   composed_pngs, frames, stage, ncheckouts, restore_ok>>
    /\ Frame

\* variant: a failed checkout is passed over and the commit is built all the same
CheckoutCommit_ignore_failure ==
    /\ pc = "checkout"
    /\ ncheckouts' = ncheckouts + 1
    /\ ncalls' = [ncalls EXCEPT !.checkout = @ + 1]
    /\ \E ok \in BOOLEAN :
         /\ calls' = Append(calls, Call("checkout", IF ok THEN "ok" ELSE "failed"))
         /\ IF ok
            THEN /\ head' = git_checkout(head, commits[idx])
                 /\ root_pdf' \in checkout_pdf(head, commits[idx], root_pdf)
                 /\ outfiles' \in checkout_outdir(head, commits[idx], outfiles)
                 /\ anim' \in checkout_anim(head, commits[idx], anim)
            ELSE UNCHANGED <<head, root_pdf, outfiles, anim>>
         /\ stage' = [stage EXCEPT ![idx] = "CHECKED_OUT"]
         /\ event' = "checked_out"
         /\ Goto("mktemp")
    /\ UNCHANGED <<workdir, tmp_pdf, tmp_pages,
                   original_branch, head_how, commits, idx, pdf_path, pages,
                   composed_img, composed_pngs, frames, restore_ok>>
    /\ Frame

\* line 234: the checkout sits in a try whose only handler is `finally: pass`,
\* so CalledProcessError leaves main; a successful checkout rewrites the files
\* of the working tree, --out-dir and --out included when they lie in it
CheckoutCommit ==
    /\ pc = "checkout"
    /\ ncheckouts' = ncheckouts + 1
    /\ ncalls' = [ncalls EXCEPT !.checkout = @ + 1]
    /\ \E ok \in BOOLEAN :
         /\ calls' = Append(calls, Call("checkout", IF ok THEN "ok" ELSE "failed"))
         /\ IF ok
            THEN /\ head' = git_checkout(head, commits[idx])
                 /\ root_pdf' \in checkout_pdf(head, commits[idx], root_pdf)
                 /\ outfiles' \in checkout_outdir(head, commits[idx], outfiles)
                 /\ anim' \in checkout_anim(head, commits[idx], anim)
                 /\ stage' = [stage EXCEPT ![idx] = "CHECKED_OUT"]
                 /\ event' = "checked_out"
                 /\ Goto("mktemp")
            ELSE /\ UNCHANGED <<head, root_pdf, outfiles, anim, stage>>
                 /\ event' = "checkout_failed"
                 /\ Exit(1, "checkout_failed")
    /\ UNCHANGED <<workdir, tmp_pdf, tmp_pages,
                   original_branch, head_how, commits, idx, pdf_path, pages,
                   composed_img, composed_pngs, frames, restore_ok>>
    /\ Frame

\* lines 237-241: a fresh temporary directory with its out/ subdirectory; they
\* are created outside the inner try blocks
MakeWorkdir ==
    /\ pc = "mktemp"
    /\ \E ok \in BOOLEAN :
         IF ok
         THEN /\ workdir' = idx
              /\ Goto("latexmk")
              /\ UNCHANGED event
         ELSE /\ UNCHANGED workdir
              /\ event' = "mktemp_failed"
              /\ Exit(1, "mktemp_failed")
    /\ tmp_pdf' = FALSE
    /\ tmp_pages' = {}
    /\ UNCHANGED <<head, root_pdf, outfiles, anim, original_branch, head_how, commits, idx,
                   pdf_path, pages, composed_img, composed_pngs, frames, stage, ncheckouts,
                   ncalls, calls, restore_ok>>
    /\ Frame

\* what a latexmk run can do to <repo>/<stem>.pdf, whatever its exit status
latexmk_pdf(effect, file, i) ==
    IF effect = "writes" THEN Built(i)
    ELSE IF effect = "removes" THEN NoDoc
    ELSE file

\* build_latex, lines 72-88: latexmk runs in the repository root (workdir=repo_path)
\* and its PDF is looked for there.  Line 87 catches CalledProcessError only:
\* when the executable found on PATH cannot be started (OSError), the exception
\* leaves build_latex and reaches the handler of lines 244-247
build_latex_latexmk ==
    /\ pc = "latexmk"
    /\ \E available \in BOOLEAN, started \in BOOLEAN :
         IF ~available
         THEN /\ Goto("pdflatex")
              /\ calls' = Append(calls, Call("latexmk", "absent"))
              /\ UNCHANGED <<root_pdf, pdf_path, stage, event, ncalls, workdir, tmp_pdf,
                             tmp_pages>>
         ELSE /\ ncalls' = [ncalls EXCEPT !.latexmk = @ + 1]
              /\ IF ~started
                 THEN /\ skip_commit("build_failed")
                      /\ calls' = Append(calls, Call("latexmk", "oserror"))
                      /\ UNCHANGED <<root_pdf, pdf_path>>
                 ELSE \E ok \in BOOLEAN, effect \in {"keeps", "writes", "removes"} :
                        /\ root_pdf' = latexmk_pdf(effect, root_pdf, idx)
                        /\ UNCHANGED <<workdir, tmp_pdf, tmp_pages>>
                        /\ IF ~ok
                           THEN /\ Goto("pdflatex")
                                /\ calls' = Append(calls, Call("latexmk", "failed"))
                                /\ event' = "latexmk_failed"
                                /\ UNCHANGED <<pdf_path, stage>>
                           ELSE /\ calls' = calls \o
                                       <<Call("latexmk", "ok"),
                                         Call("exists", IF root_pdf' # NoDoc
                                                        THEN "pdf" ELSE "no_pdf")>>
                                /\ IF root_pdf' # NoDoc
                                   THEN /\ pdf_path' = RootPdf
                                        /\ stage' = [stage EXCEPT ![idx] = "BUILT"]
                                        /\ event' = "built"
                                        /\ Goto("pdftoppm")
                                   ELSE /\ event' = "latexmk_no_pdf"
                                        /\ Goto("pdflatex")
                                        /\ UNCHANGED <<pdf_path, stage>>
    /\ UNCHANGED <<head, outfiles, anim, original_branch,
                   head_how, commits, idx, pages, composed_img, composed_pngs, frames,
                   ncheckouts, restore_ok>>
    /\ Frame

\* variant: the second pdflatex pass is run although the first pass failed
build_latex_pdflatex_second_pass_anyway ==
    /\ pc = "pdflatex"
    /\ \E available \in BOOLEAN, pass1 \in BOOLEAN, pass2 \in BOOLEAN, wrote \in BOOLEAN :
         LET runs == IF ~available THEN 0 ELSE 2
             built == available /\ pass1 /\ pass2 /\ wrote
         IN  /\ ncalls' = [ncalls EXCEPT !.pdflatex = @ + runs]
             /\ calls' = calls \o
                    (IF ~available THEN <<Call("pdflatex", "absent")>>
                     ELSE IF ~(pass1 /\ pass2)
                          THEN <<Call("pdflatex", IF pass1 THEN "ok" ELSE "failed"),
                                 Call("pdflatex", IF pass2 THEN "ok" ELSE "failed")>>
                     ELSE <<Call("pdflatex", "ok"), Call("pdflatex", "ok"),
                            Call("exists", IF wrote THEN "pdf" ELSE "no_pdf")>>)
             /\ IF built
                THEN /\ tmp_pdf' = TRUE
                     /\ pdf_path' = TmpPdf(idx)
                     /\ stage' = [stage EXCEPT ![idx] = "BUILT"]
                     /\ event' = "built"
                     /\ Goto("pdftoppm")
                     /\ UNCHANGED <<workdir, tmp_pages>>
                ELSE /\ skip_commit("build_failed")
                     /\ UNCHANGED pdf_path
    /\ UNCHANGED <<head, root_pdf, outfiles, anim, original_branch, head_how, commits, idx,
                   pages, composed_img, composed_pngs, frames, ncheckouts, restore_ok>>
    /\ Frame

\* build_latex, lines 90-111, and the handler of lines 244-247; a pass fails by
\* a non-zero exit status or by not starting, both end in that handler
build_latex_pdflatex ==
    /\ pc = "pdflatex"
    /\ \E available \in BOOLEAN, pass1 \in BOOLEAN, pass2 \in BOOLEAN, wrote \in BOOLEAN :
         LET runs == IF ~available THEN 0 ELSE IF ~pass1 THEN 1 ELSE 2
             built == available /\ pass1 /\ pass2 /\ wrote
         IN  /\ ncalls' = [ncalls EXCEPT !.pdflatex = @ + runs]
             /\ calls' = calls \o
                    (IF ~available THEN <<Call("pdflatex", "absent")>>
                     ELSE IF ~pass1 THEN <<Call("pdflatex", "failed")>>
                     ELSE IF ~pass2 THEN <<Call("pdflatex", "ok"), Call("pdflatex", "failed")>>
                     ELSE <<Call("pdflatex", "ok"), Call("pdflatex", "ok"),
                            Call("exists", IF wrote THEN "pdf" ELSE "no_pdf")>>)
             /\ IF built
                THEN /\ tmp_pdf' = TRUE
                     /\ pdf_path' = TmpPdf(idx)
                     /\ stage' = [stage EXCEPT ![idx] = "BUILT"]
                     /\ event' = "built"
                     /\ Goto("pdftoppm")
                     /\ UNCHANGED <<workdir, tmp_pages>>
                ELSE /\ skip_commit("build_failed")
                     /\ UNCHANGED pdf_path
    /\ UNCHANGED <<head, root_pdf, outfiles, anim, original_branch, head_how, commits, idx,
                   pages, composed_img, composed_pngs, frames, ncheckouts, restore_ok>>
    /\ Frame

\* lines 249-255 with pdf_to_png_pages, lines 119-134: the page files show the
\* document of the PDF at pdf_path
Rasterize ==
    /\ pc = "pdftoppm"
    /\ \E available \in BOOLEAN, ok \in BOOLEAN, present \in SUBSET (1..MaxPageFiles) :
         /\ ncalls' = [ncalls EXCEPT !.pdftoppm = @ + (IF available THEN 1 ELSE 0)]
         /\ calls' = Append(calls, Call("pdftoppm", IF ~available THEN "absent"
                                                    ELSE IF ok THEN "ok" ELSE "failed"))
         /\ IF available /\ ok
            THEN /\ tmp_pages' = {[page |-> i, doc |-> pdf_at(pdf_path)] : i \in present}
                 /\ pages' = pdf_to_png_pages(present, max_pages)
                 /\ stage' = [stage EXCEPT ![idx] = "RASTERIZED"]
                 /\ event' = "rasterized"
                 /\ Goto("pages")
                 /\ UNCHANGED <<workdir, tmp_pdf>>
            ELSE /\ skip_commit("pdftoppm_failed")
                 /\ UNCHANGED pages
    /\ UNCHANGED <<head, root_pdf, outfiles, anim, original_branch, head_how, commits, idx,
                   pdf_path, composed_img, composed_pngs, frames, ncheckouts, restore_ok>>
    /\ Frame

\* lines 257-259
CheckPages ==
    /\ pc = "pages"
    /\ IF pages = <<>>
       THEN skip_commit("no_pages")
       ELSE /\ Goto("compose")
            /\ UNCHANGED <<stage, event, workdir, tmp_pdf, tmp_pages>>
    /\ UNCHANGED <<head, root_pdf, outfiles, anim, original_branch, head_how, commits, idx,
                   pdf_path, pages, composed_img, composed_pngs, frames, ncheckouts, ncalls,
                   calls, restore_ok>>
    /\ Frame

\* the page file <workdir>/page-i.png
page_file(i) == CHOOSE f \in tmp_pages : f.page = i

\* lines 261-266: the page files hold images of some sizes; the strip shows
\* what the pages show
Compose ==
    /\ pc = "compose"
    /\ \E images \in [1..Len(pages) -> DriverSizes] :
         LET res == compose_side_by_side(images, max_pages, MAX_HEIGHT, DRIVER_GAP)
         IN  IF res.kind = "image"
             THEN /\ composed_img' = [kind |-> "image", w |-> res.w, h |-> res.h,
                                      doc |-> page_file(pages[1]).doc]
                  /\ stage' = [stage EXCEPT ![idx] = "COMPOSED"]
                  /\ event' = "composed"
                  /\ Goto("save")
                  /\ UNCHANGED <<workdir, tmp_pdf, tmp_pages>>
             ELSE /\ skip_commit("compose_failed")
                  /\ UNCHANGED composed_img
    /\ UNCHANGED <<head, root_pdf, outfiles, anim, original_branch, head_how, commits, idx,
                   pdf_path, pages, composed_pngs, frames, ncheckouts, ncalls, calls,
                   restore_ok>>
    /\ Frame

\* variant: the new strip is put in front of the list instead of at its end
SaveStrip_prepend ==
    /\ pc = "save"
    /\ cleanup_workdir
    /\ \E ok \in BOOLEAN :
         IF ok
         THEN /\ outfiles' = write_file(outfiles, out_png(idx, commits[idx]),
                                        Strip(idx, composed_img.doc))
              /\ composed_pngs' = <<out_png(idx, commits[idx])>> \o composed_pngs
              /\ stage' = [stage EXCEPT ![idx] = "SAVED"]
              /\ event' = "saved"
              /\ Goto("loop")
         ELSE /\ \E opened \in BOOLEAN :
                    outfiles' = IF opened
                                THEN write_file(outfiles, out_png(idx, commits[idx]),
                                                Damaged(idx))
                                ELSE outfiles
              /\ UNCHANGED <<composed_pngs, stage>>
              /\ event' = "save_failed"
              /\ Exit(1, "save_failed")
    /\ UNCHANGED <<head, root_pdf, anim, original_branch, head_how, commits, idx,
                   pdf_path, pages, composed_img, frames, ncheckouts, ncalls, calls,
                   restore_ok>>
    /\ Frame

\* lines 268-271: composed_img.save is outside every try/except; when it fails
\* after opening the file, the file is left without an image
SaveStrip ==
    /\ pc = "save"
    /\ cleanup_workdir
    /\ \E ok \in BOOLEAN :
         IF ok
         THEN /\ outfiles' = write_file(outfiles, out_png(idx, commits[idx]),
                                        Strip(idx, composed_img.doc))
              /\ composed_pngs' = Append(composed_pngs, out_png(idx, commits[idx]))
              /\ stage' = [stage EXCEPT ![idx] = "SAVED"]
              /\ event' = "saved"
              /\ Goto("loop")
         ELSE /\ \E opened \in BOOLEAN :
                    outfiles' = IF opened
                                THEN write_file(outfiles, out_png(idx, commits[idx]),
                                                Damaged(idx))
                                ELSE outfiles
              /\ UNCHANGED <<composed_pngs, stage>>
              /\ event' = "save_failed"
              /\ Exit(1, "save_failed")
    /\ UNCHANGED <<head, root_pdf, anim, original_branch, head_how, commits, idx,
                   pdf_path, pages, composed_img, frames, ncheckouts, ncalls, calls,
                   restore_ok>>
    /\ Frame

(***************************************************************************)
(* main, after the loop.                                                   *)
(***************************************************************************)
\* variant: a failed restore ends the run with an error
RestoreHead_fatal ==
    /\ pc = "restore"
    /\ ncheckouts' = ncheckouts + 1
    /\ \E ok \in BOOLEAN :
         IF ok
         THEN /\ head' = git_checkout(head, original_branch)
              /\ root_pdf' \in checkout_pdf(head, original_branch, root_pdf)
              /\ outfiles' \in checkout_outdir(head, original_branch, outfiles)
              /\ anim' \in checkout_anim(head, original_branch, anim)
              /\ restore_ok' = TRUE
              /\ event' = "restored"
              /\ Goto("frames")
         ELSE /\ UNCHANGED <<head, root_pdf, outfiles, anim>>
              /\ restore_ok' = FALSE
              /\ event' = "restore_failed"
              /\ Exit(1, "restore_failed")
    /\ UNCHANGED <<workdir, tmp_pdf, tmp_pages, original_branch,
                   head_how, commits, idx, pdf_path, pages, composed_img, composed_pngs,
                   frames, stage, ncalls, calls>>
    /\ Frame

\* lines 279-284: restore original HEAD, a failure is only logged
RestoreHead ==
    /\ pc = "restore"
    /\ ncheckouts' = ncheckouts + 1
    /\ \E ok \in BOOLEAN :
         IF ok
         THEN /\ head' = git_checkout(head, original_branch)
              /\ root_pdf' \in checkout_pdf(head, original_branch, root_pdf)
              /\ outfiles' \in checkout_outdir(head, original_branch, outfiles)
              /\ anim' \in checkout_anim(head, original_branch, anim)
              /\ restore_ok' = TRUE
              /\ event' = "restored"
         ELSE /\ UNCHANGED <<head, root_pdf, outfiles, anim>>
              /\ restore_ok' = FALSE
              /\ event' = "restore_failed"
    /\ Goto("frames")
    /\ UNCHANGED <<workdir, tmp_pdf, tmp_pages, original_branch,
                   head_how, commits, idx, pdf_path, pages, composed_img, composed_pngs,
                   frames, stage, ncalls, calls>>
    /\ Frame

\* variant: the animation is assembled whether or not a frame was saved
CheckFrames_always_assemble ==
    /\ pc = "frames"
    /\ Goto("assemble")
    /\ UNCHANGED <<fsVars, original_branch, head_how, commits, idx, pdf_path, pages,
                   composed_img, composed_pngs, frames, obsVars>>
    /\ Frame

\* lines 286-288
CheckFrames ==
    /\ pc = "frames"
    /\ IF composed_pngs = <<>> THEN Exit(2, "no_frames") ELSE Goto("assemble")
    /\ UNCHANGED <<fsVars, original_branch, head_how, commits, idx, pdf_path, pages,
                   composed_img, composed_pngs, frames, obsVars>>
    /\ Frame

\* variant: the frames are collected newest first
Assemble_newest_first ==
    /\ pc = "assemble"
    /\ \E bad \in 0..Len(composed_pngs) :
         /\ frames' = read_frames(outfiles,
                                   [i \in 1..Len(composed_pngs) |->
                                       composed_pngs[Len(composed_pngs) + 1 - i]],
                                   bad, 1)
         /\ IF Len(frames') < Len(composed_pngs)
            THEN /\ UNCHANGED anim
                 /\ event' = "imread_failed"
                 /\ Exit(1, "imread_failed")
            ELSE \E ok \in BOOLEAN :
                   IF ok
                   THEN /\ anim' = Written(frames')
                        /\ event' = "encoded"
                        /\ Goto("finish")
                   ELSE /\ anim' \in {anim, Broken}
                        /\ event' = "encode_failed"
                        /\ Exit(1, "encode_failed")
    /\ UNCHANGED <<head, root_pdf, workdir, tmp_pdf, tmp_pages, outfiles, original_branch,
                   head_how, commits, idx, pdf_path, pages, composed_img, composed_pngs,
                   stage, ncheckouts, ncalls, calls, restore_ok>>
    /\ Frame

\* lines 290-304: read the composed PNGs in order (imageio.imread is outside
\* every try: a failed read leaves main with the frames read so far), then hand
\* the frames to imageio.mimsave, which on failure may have started the file
Assemble ==
    /\ pc = "assemble"
    /\ \E bad \in 0..Len(composed_pngs) :
         /\ frames' = read_frames(outfiles, composed_pngs, bad, 1)
         /\ IF Len(frames') < Len(composed_pngs)
            THEN /\ UNCHANGED anim
                 /\ event' = "imread_failed"
                 /\ Exit(1, "imread_failed")
            ELSE \E ok \in BOOLEAN :
                   IF ok
                   THEN /\ anim' = Written(frames')
                        /\ event' = "encoded"
                        /\ Goto("finish")
                   ELSE /\ anim' \in {anim, Broken}
                        /\ event' = "encode_failed"
                        /\ Exit(1, "encode_failed")
    /\ UNCHANGED <<head, root_pdf, workdir, tmp_pdf, tmp_pages, outfiles, original_branch,
                   head_how, commits, idx, pdf_path, pages, composed_img, composed_pngs,
                   stage, ncheckouts, ncalls, calls, restore_ok>>
    /\ Frame

\* variant: with the flag the run ends with an error status
log_done_status_from_flag(k) ==
    /\ pc = "finish"
    /\ IF k THEN Exit(1, "kept_temp") ELSE Exit(0, "success")
    /\ UNCHANGED <<fsVars, original_branch, head_how, commits, idx, pdf_path, pages,
                   composed_img, composed_pngs, frames, obsVars>>
    /\ UNCHANGED <<envVars, pagesVars, composeVars>>

\* lines 306-308 with args.keep_temp = k, the log output apart: main returns
log_done(k) ==
    /\ pc = "finish"
    /\ Exit(0, "success")
    /\ UNCHANGED <<fsVars, original_branch, head_how, commits, idx, pdf_path, pages,
                   composed_img, composed_pngs, frames, obsVars>>
    /\ UNCHANGED <<envVars, pagesVars, composeVars>>

\* lines 306-308: "Done." is logged, and the note about the temporary
\* directories when --keep-temp was given
Finish ==
    /\ log_done(keep_temp)
    /\ keep_temp_note' = keep_temp

Next ==
    \/ CheckRepo
    \/ ensure_tools_exist
    \/ CheckTex
    \/ RecordHead
    \/ get_commits_touching_file
    \/ LoopNext
    \/ CheckoutCommit
    \/ MakeWorkdir
    \/ build_latex_latexmk
    \/ build_latex_pdflatex
    \/ Rasterize
    \/ CheckPages
    \/ Compose
    \/ SaveStrip
    \/ RestoreHead
    \/ CheckFrames
    \/ Assemble
    \/ Finish

Spec == Init /\ [][Next]_vars

(***************************************************************************)
(* pdf_to_png_pages on its own: any set of page files, any page cap.       *)
(***************************************************************************)
DriverIdle ==
    /\ repo_exists = FALSE /\ tools_ok = FALSE /\ tex_exists = FALSE
    /\ history = <<>> /\ head0 = [branch |-> Main, commit |-> OtherTip]
    /\ max_pages = 0 /\ keep_temp = FALSE /\ keep_temp_note = FALSE
    /\ head = [branch |-> Main, commit |-> OtherTip]
    /\ root_pdf = NoDoc /\ workdir = 0 /\ tmp_pdf = FALSE /\ tmp_pages = {}
    /\ outfiles = {} /\ anim = NoAnim /\ pc = "off" /\ original_branch = NoRef
    /\ head_how = "none" /\ commits = <<>> /\ idx = 0 /\ pdf_path = NoPath
    /\ pages = <<>> /\ composed_img = NoImg /\ composed_pngs = <<>> /\ frames = <<>>
    /\ exit_code = NotExited /\ exit_why = "running" /\ stage = <<>> /\ event = "none"
    /\ ncheckouts = 0 /\ ncalls = NoCalls /\ calls = <<>> /\ restore_ok = FALSE

InitPages ==
    /\ DriverIdle
    /\ p_present \in SUBSET (1..MaxPageIdx)
    /\ p_max_pages \in 0..MaxCap
    /\ p_result = [done |-> FALSE, produced |-> <<>>]
    /\ c_images = <<>> /\ c_max_pages = 0 /\ c_gap = 0 /\ c_result = [kind |-> "idle"]

CallPdfToPngPages ==
    /\ ~p_result.done
    /\ p_result' = [done |-> TRUE, produced |-> pdf_to_png_pages(p_present, p_max_pages)]
    /\ UNCHANGED <<driverVars, p_present, p_max_pages, composeVars>>

NextPages == CallPdfToPngPages

SpecPages == InitPages /\ [][NextPages]_vars

(***************************************************************************)
(* compose_side_by_side on its own: any list of page images.               *)
(***************************************************************************)
\* page images: a sliver, a page shorter than the strip, one exactly as tall,
\* A4 at 150 dpi, A4 at 187 dpi
Sizes == {[w |-> 1, h |-> 2400], [w |-> 800, h |-> 600], [w |-> 900, h |-> 1200],
          [w |-> 1240, h |-> 1754], [w |-> 1549, h |-> 2191]}

InitCompose ==
    /\ DriverIdle
    /\ p_present = {} /\ p_max_pages = 0 /\ p_result = [done |-> TRUE, produced |-> <<>>]
    /\ c_images \in SeqsUpTo(Sizes, MaxImgs)
    /\ c_max_pages \in 0..MaxImgs
    /\ c_gap \in {DRIVER_GAP, DEFAULT_GAP}
    /\ c_result = [kind |-> "none"]

CallComposeSideBySide ==
    /\ c_result.kind = "none"
    /\ c_result' = compose_side_by_side(c_images, c_max_pages, MAX_HEIGHT, c_gap)
    /\ UNCHANGED <<driverVars, pagesVars, c_images, c_max_pages, c_gap>>

NextCompose == CallComposeSideBySide

SpecCompose == InitCompose /\ [][NextCompose]_vars

(***************************************************************************)
(* Properties of the driver.                                               *)
(***************************************************************************)
StageFailures == {"checkout_failed", "build_failed", "pdftoppm_failed", "no_pages",
                  "compose_failed", "save_failed"}

\* C1: whenever a per-commit transition (checkout, build, rasterize, compose, save)
\* fails, that commit is SKIPPED and the driver is back at the head of the loop;
\* the run has not exited.
C1_StageFailureOnlySkips ==
    event \in StageFailures =>
        /\ stage[idx] = "SKIPPED"
        /\ pc = "loop"
        /\ exit_code = NotExited

\* the image in the file `name` of --out-dir
ContentOf(name) == imread(outfiles, name, TRUE).img

\* indices of the commits that reached SAVED, oldest first
SavedCommits == SelectSeq([i \in 1..Len(commits) |-> i], LAMBDA i : stage[i] = "SAVED")

FramesHanded == event \in {"encoded", "encode_failed"}

\* a commit only moves along PENDING, CHECKED_OUT, BUILT, RASTERIZED, COMPOSED, SAVED,
\* each move made by the success of that stage for the commit being processed
StageChain ==
    \A i \in DOMAIN stage \cap DOMAIN stage' :
        stage'[i] # stage[i] =>
            /\ i = idx
            /\ \/ /\ stage[i] = "PENDING" /\ stage'[i] = "CHECKED_OUT"
                  /\ head'.commit = commits[i]
               \/ /\ stage[i] = "CHECKED_OUT" /\ stage'[i] \in {"BUILT", "SKIPPED"}
                  /\ stage'[i] = "BUILT" => pdf_path' # NoPath
               \/ /\ stage[i] = "BUILT" /\ stage'[i] \in {"RASTERIZED", "SKIPPED"}
               \/ /\ stage[i] = "RASTERIZED" /\ stage'[i] \in {"COMPOSED", "SKIPPED"}
                  /\ stage'[i] = "COMPOSED" => pages # <<>> /\ composed_img'.kind = "image"
               \/ /\ stage[i] = "COMPOSED" /\ stage'[i] = "SAVED"
                  /\ [name |-> out_png(i, commits[i]),
                      content |-> Strip(i, composed_img.doc)] \in outfiles'

\* C2: the frames handed to the encoder are the strips of exactly the commits whose
\* checkout, build, rasterization (at least one page), composition and save all
\* succeeded in this run, one frame each, oldest commit first: the k-th frame is
\* the strip that the iteration of the k-th such commit composed and saved, and
\* no other image stands in for it.
C2_FramesAreTheSavedCommits ==
    /\ [](FramesHanded =>
            /\ \A i \in 1..Len(commits) : stage[i] \in {"SAVED", "SKIPPED"}
            /\ Len(frames) = Len(SavedCommits)
            /\ \A k \in 1..Len(frames) : frames[k].by = SavedCommits[k])
    /\ [][StageChain]_vars

\* C3: the saved frames are a subsequence of the commit list (no duplicates, no
\* reordering), no longer than the number of commits attempted so far.
C3_FramesSubsequenceOfCommits ==
    /\ Len(composed_pngs) <= idx
    /\ \A k \in 1..Len(composed_pngs) :
          /\ composed_pngs[k].idx \in 1..idx
          /\ composed_pngs[k] = out_png(composed_pngs[k].idx, commits[composed_pngs[k].idx])
    /\ \A k, l \in 1..Len(composed_pngs) :
          k < l => composed_pngs[k].idx < composed_pngs[l].idx

\* commit 1 skipped, commit 2 saved: one frame, that of the second commit
C3_Witness ==
    /\ pc = "loop" /\ idx = 2
    /\ stage = <<"SKIPPED", "SAVED">>
    /\ Len(composed_pngs) = 1
    /\ composed_pngs[1].idx = 2

FullRun == pc = "done" /\ exit_why \in {"success", "no_frames", "encode_failed"}

\* C4: after a full run (all saved, some skipped, or all skipped) the checked-out
\* reference is the one the repository had before the run, from a branch or from a
\* detached HEAD.  Stated for the runs in which every git command succeeded.
C4_HeadRestoredAfterFullRun ==
    (FullRun /\ head_how = "abbrev-ref" /\ restore_ok) => head = head0

\* C5: the recorded reference is the branch name when on a branch and the commit
\* hash when HEAD is detached.  Stated for the runs in which the first query of
\* HEAD succeeded.
C5_RecordedReference ==
    head_how = "abbrev-ref" =>
        original_branch = (IF head0.branch # NoBranch THEN head0.branch ELSE head0.commit)

\* C6: a run ends with 0, 1 or 2; 2 for each precondition failure, 1 when and only
\* when the animation encoding fails, 0 when the animation was written.
C6_ExitCodes ==
    pc = "done" =>
        /\ exit_code \in {0, 1, 2}
        /\ exit_why \in {"repo_missing", "tex_missing", "no_commits", "no_frames"}
              => exit_code = 2
        /\ exit_code = 1 <=> exit_why = "encode_failed"
        /\ anim.kind = "written" => exit_code = 0

PreconditionFails == ~repo_exists \/ ~tools_ok \/ ~tex_exists \/ history = <<>>

\* C7: when a precondition fails (no repository, tools missing, no target file, no
\* commit touching it) the run never enters the loop: no checkout is performed and
\* HEAD stays where it was.
C7_NoCheckoutOnPreconditionFailure ==
    PreconditionFails =>
        /\ ncheckouts = 0
        /\ head = head0
        /\ pc \in {"start", "tools", "tex", "record", "log", "done"}
        /\ pc = "done" => exit_code \in {1, 2}

\* the run got as far as the last precondition and stopped there
C7_Witness ==
    /\ pc = "done"
    /\ exit_why = "no_commits"
    /\ repo_exists /\ tools_ok /\ tex_exists
    /\ head = head0

(***************************************************************************)
(* Properties of pdf_to_png_pages.                                         *)
(***************************************************************************)
\* the largest k <= cap with pages 1..k all present
ContiguousPrefix(present, cap) ==
    CHOOSE k \in 0..cap :
        /\ \A i \in 1..k : i \in present
        /\ \A j \in (k + 1)..cap : \E i \in 1..j : i \notin present

\* C8: the pages returned are 1..k in order, k the largest number <= max_pages with
\* pages 1..k all present; nothing after the first missing page is returned.
C8_PagesUpToFirstGap ==
    p_result.done =>
        p_result.produced = [i \in 1..ContiguousPrefix(p_present, p_max_pages) |-> i]

\* pages 1, 2, 4 present with cap 10 gives [1, 2]
C8_Witness ==
    /\ p_result.done
    /\ p_present = {1, 2, 4}
    /\ p_max_pages = 10
    /\ p_result.produced = <<1, 2>>

(***************************************************************************)
(* Properties of compose_side_by_side.                                     *)
(***************************************************************************)
Composed == c_result.kind # "none"

InClaimRange == Len(c_images) >= 1 /\ Len(c_images) <= c_max_pages

\* width of image i after the height scaling
ScaledWidth(i) == scale_size(c_images[i], MAX_HEIGHT).w
ScaledHeight(i) == scale_size(c_images[i], MAX_HEIGHT).h

RECURSIVE WidthsUpTo(_)
WidthsUpTo(n) == IF n = 0 THEN 0 ELSE WidthsUpTo(n - 1) + ScaledWidth(n)

StripGeometry ==
    /\ c_result.kind = "image"
    /\ c_result.w = WidthsUpTo(Len(c_images)) + c_gap * (Len(c_images) - 1)
    /\ \A i \in 1..Len(c_images) : c_result.h >= ScaledHeight(i)
    /\ \E i \in 1..Len(c_images) : c_result.h = ScaledHeight(i)

\* an image whose scaled width or height is zero pixels
Vanishes(i) == ScaledWidth(i) < 1 \/ ScaledHeight(i) < 1

\* C9 as stated: every non-empty list of 1..max_pages images gives an image of
\* width sum(scaled widths) + gap*(count-1) and height max(scaled heights); zero
\* images give an error.
C9_StripGeometryAlways ==
    Composed =>
        /\ InClaimRange => StripGeometry
        /\ c_images = <<>> => c_result.kind = "error"

\* C9 amended: the same, for the lists in which no image is scaled down to zero
\* pixels; with zero images, or with an image scaled down to zero pixels, the
\* result is an error.
C9_StripGeometry ==
    Composed =>
        /\ (InClaimRange /\ \A i \in 1..Len(c_images) : ~Vanishes(i)) => StripGeometry
        /\ (InClaimRange /\ \E i \in 1..Len(c_images) : Vanishes(i))
              => c_result.kind = "error"
        /\ c_images = <<>> => c_result.kind = "error"

\* two pages composed, one of them scaled down
C9_Witness ==
    /\ c_result.kind = "image"
    /\ Len(c_images) = 2
    /\ c_max_pages >= 2
    /\ c_images[1].h > MAX_HEIGHT
    /\ c_images[2].h <= MAX_HEIGHT
    /\ c_result.w = ScaledWidth(1) + c_images[2].w + c_gap

\* C10: an image no taller than the target keeps its size; a taller image is scaled
\* so that its height is exactly the target.
C10_DownscaleToTarget ==
    c_result.kind = "image" =>
        \A i \in 1..Len(c_result.scaled) :
            /\ c_images[i].h <= MAX_HEIGHT => c_result.scaled[i] = c_images[i]
            /\ c_images[i].h > MAX_HEIGHT => c_result.scaled[i].h = MAX_HEIGHT

(***************************************************************************)
(* --keep-temp.                                                            *)
(***************************************************************************)
\* what main does from the current state when --keep-temp is given exactly when
\* it is not given in this run, the log output apart
NextWithoutTheFlag ==
    \/ CheckRepo
    \/ ensure_tools_exist
    \/ CheckTex
    \/ RecordHead
    \/ get_commits_touching_file
    \/ LoopNext
    \/ CheckoutCommit
    \/ MakeWorkdir
    \/ build_latex_latexmk
    \/ build_latex_pdflatex
    \/ Rasterize
    \/ CheckPages
    \/ Compose
    \/ SaveStrip
    \/ RestoreHead
    \/ CheckFrames
    \/ Assemble
    \/ log_done(~keep_temp)

\* the note is logged at the return of main and nowhere else, when the flag is
\* given and only then
NoteOnlyAtTheEnd ==
    /\ keep_temp' = keep_temp
    /\ keep_temp_note' # keep_temp_note => (pc = "finish" /\ keep_temp /\ keep_temp_note')
    /\ (pc = "finish" /\ keep_temp) => keep_temp_note'

\* C11: every step of a run is, the log note apart, a step the run takes from
\* the same state with --keep-temp given the other way round, so two runs from
\* the same repository, tool outcomes and other arguments go through the same
\* checkouts, builds and saves and end with the same repository, files,
\* animation and exit code; the flag adds the log note at the end of a
\* successful run and nothing else
C11_KeepTempOnlyLogs ==
    /\ [](keep_temp_note => (keep_temp /\ pc = "done" /\ exit_code = 0))
    /\ [][NextWithoutTheFlag /\ NoteOnlyAtTheEnd]_vars

\* a run with --keep-temp that saved a strip and wrote the animation: the note
\* was logged, the exit code is 0 and no temporary directory is left
C11_Witness ==
    /\ pc = "done" /\ exit_code = 0
    /\ keep_temp /\ keep_temp_note
    /\ anim.kind = "written"
    /\ workdir = 0 /\ ~tmp_pdf /\ tmp_pages = {}

(***************************************************************************)
(* Build artifacts and the commit they belong to.                          *)
(***************************************************************************)
\* a build artifact exists on disk: latexmk's PDF in the repository root or
\* pdflatex's PDF in the temporary directory
ArtifactOnDisk == root_pdf.src = "built" \/ tmp_pdf

\* C12: the PDF handed to the rasterizer for commit idx was written by the build
\* of commit idx in this iteration, and when the processing of a commit starts no
\* PDF written by the build of an earlier commit is left on disk
C12_ArtifactOfOwnIteration ==
    /\ pc = "pdftoppm" => pdf_at(pdf_path) = Built(idx)
    /\ pc = "checkout" => ~ArtifactOnDisk

(***************************************************************************)
(* build_latex: primary tool, fallback, failure.                           *)
(***************************************************************************)
\* what build_latex ran and saw for the current commit (the entry before is
\* the checkout)
BuildCalls == SubSeq(calls, 2, Len(calls))

\* the primary attempt yielded a PDF
PrimaryPdf == <<Call("latexmk", "ok"), Call("exists", "pdf")>>

\* the primary attempt yielded nothing: latexmk absent, failed, or left no PDF
PrimaryNoPdf ==
    { <<Call("latexmk", "absent")>>,
      <<Call("latexmk", "failed")>>,
      <<Call("latexmk", "ok"), Call("exists", "no_pdf")>> }

\* the fallback ran its two passes and its PDF is there
FallbackPdf == <<Call("pdflatex", "ok"), Call("pdflatex", "ok"), Call("exists", "pdf")>>

\* the fallback is absent, one of its passes fails, or its PDF is missing
FallbackNoPdf ==
    { <<Call("pdflatex", "absent")>>,
      <<Call("pdflatex", "failed")>>,
      <<Call("pdflatex", "ok"), Call("pdflatex", "failed")>>,
      <<Call("pdflatex", "ok"), Call("pdflatex", "ok"), Call("exists", "no_pdf")>> }

\* a step in which build_latex raises: the build is left for the head of the loop
BuildRaises == pc \in {"latexmk", "pdflatex"} /\ pc' = "loop"

\* C13: build_latex returns latexmk's PDF exactly when latexmk is available, exits
\* successfully and its PDF exists, and then pdflatex is not run; pdflatex is
\* started exactly when the primary attempt yielded no PDF, and its PDF is
\* returned after two successful passes; build_latex fails exactly when the
\* primary attempt yielded no PDF and pdflatex is absent, a pass fails or its PDF
\* is missing, and then no path is returned
C13_BuildLatexPrimaryThenFallback ==
    /\ [](/\ pc = "pdflatex" => BuildCalls \in PrimaryNoPdf
          /\ pc = "pdftoppm" =>
               \/ /\ BuildCalls = PrimaryPdf
                  /\ pdf_path = RootPdf /\ root_pdf # NoDoc
                  /\ ncalls.latexmk = 1 /\ ncalls.pdflatex = 0
               \/ /\ \E p \in PrimaryNoPdf : BuildCalls = p \o FallbackPdf
                  /\ pdf_path = TmpPdf(idx) /\ pdf_at(pdf_path) = Built(idx)
                  /\ ncalls.pdflatex = 2
          /\ event = "build_failed" =>
               /\ \E p \in PrimaryNoPdf, f \in FallbackNoPdf : BuildCalls = p \o f
               /\ stage[idx] = "SKIPPED")
    /\ [][BuildRaises => (event' = "build_failed" /\ pdf_path' = pdf_path)]_vars

(***************************************************************************)
(* No retries.                                                             *)
(***************************************************************************)
\* the external tools of one commit's processing
Tools == {"checkout", "latexmk", "pdflatex", "pdftoppm"}

\* how many times `tool` was started for the current commit, by the record
RunsOf(tool) ==
    Cardinality({i \in 1..Len(calls) : calls[i].tool = tool /\ calls[i].result # "absent"})

\* no tool is started again after it has run, except pdflatex once after a
\* successful first pass
NoToolRunTwice ==
    \A i, j \in 1..Len(calls) :
        (i < j /\ calls[i].tool = calls[j].tool /\ calls[i].tool \in Tools) =>
            /\ calls[i].tool = "pdflatex"
            /\ calls[i].result = "ok"

\* the loop index only moves forward by one, and a skipped commit stays skipped
ForwardOnly ==
    /\ idx' \in {idx, idx + 1}
    /\ \A i \in 1..Len(stage) : stage[i] = "SKIPPED" => stage'[i] = "SKIPPED"

\* C14: for each commit the checkout, latexmk and pdftoppm are started at most
\* once, pdflatex at most twice and its second pass only after a successful first
\* pass; the loop never goes back to a commit, and a commit once skipped stays
\* skipped for the rest of the run
C14_NoRetries ==
    /\ [](/\ \A t \in Tools : ncalls[t] = RunsOf(t)
          /\ ncalls.checkout <= 1 /\ ncalls.latexmk <= 1 /\ ncalls.pdftoppm <= 1
          /\ ncalls.pdflatex <= 2
          /\ NoToolRunTwice
          /\ pc \in {"loop", "checkout", "mktemp", "latexmk", "pdflatex", "pdftoppm",
                     "pages", "compose", "save"} => ncheckouts <= idx
          /\ \A i \in 1..Len(stage) : stage[i] = "SKIPPED" => i <= idx)
    /\ [][ForwardOnly]_vars

\* the second commit is dropped after a failed first pdflatex pass, which was
\* the only pass run, and the first commit was skipped before
C14_Witness ==
    /\ idx = 2 /\ stage[1] = "SKIPPED" /\ stage[2] = "SKIPPED"
    /\ event = "build_failed"
    /\ calls[Len(calls)] = Call("pdflatex", "failed")
    /\ ncalls.pdflatex = 1

(***************************************************************************)
(* The temporary build directory of a commit.                              *)
(***************************************************************************)
\* labels at which the `with tempfile.TemporaryDirectory(...)` block is open
InsideWith == {"latexmk", "pdflatex", "pdftoppm", "pages", "compose", "save"}

\* no temporary directory and nothing of its content is on disk
NoWorkdir == workdir = 0 /\ ~tmp_pdf /\ tmp_pages = {}

\* C15: while a commit is built, rasterized, composed and saved the temporary
\* directory on disk is the one created for that commit, created empty; between
\* commits, after the loop and when the run has ended no temporary directory
\* exists, whatever the outcome of the commit was; raster pages on disk and the
\* pages handed to the composition are those written for the current commit
C15_WorkdirPerCommit ==
    /\ pc \in InsideWith => workdir = idx
    /\ pc \notin InsideWith => NoWorkdir
    /\ pc \in {"latexmk", "pdflatex"} => tmp_pages = {}
    /\ pc = "latexmk" => ~tmp_pdf
    /\ pc \in {"pages", "compose", "save"} =>
           /\ \A k \in 1..Len(pages) : \E f \in tmp_pages : f.page = pages[k]
           /\ \A f \in tmp_pages : f.doc = pdf_at(pdf_path)

\* the second commit was dropped at composition after its pages were written,
\* the first one was saved, and no temporary directory is left
C15_Witness ==
    /\ pc = "loop" /\ idx = 2
    /\ stage[1] = "SAVED"
    /\ event = "compose_failed"
    /\ pages # <<>>
    /\ NoWorkdir

(***************************************************************************)
(* Zero frames.                                                            *)
(***************************************************************************)
\* the restore checkout of lines 279-284 has been attempted
RestoreAttempted ==
    event \in {"restored", "restore_failed", "imread_failed", "encoded", "encode_failed"}

\* the reading of the strips for the animation has started
AssemblyEntered == event \in {"imread_failed", "encoded", "encode_failed"}

\* C16: when the loop has gone through all commits and no frame was saved, the
\* run never reaches the assembly: the encoder is not invoked, no animation file
\* is written, the exit code is 2, and the restore checkout was attempted before
\* the exit; and the exit for zero frames happens in no other case
C16_ZeroFramesExitsBeforeAssembly ==
    /\ (RestoreAttempted /\ composed_pngs = <<>>) =>
           /\ pc \in {"frames", "done"}
           /\ ~AssemblyEntered /\ frames = <<>> /\ anim.kind # "written"
           /\ pc = "done" => exit_code = 2 /\ exit_why = "no_frames"
    /\ pc \in {"assemble", "finish"} => composed_pngs # <<>>
    /\ exit_why = "no_frames" =>
           /\ exit_code = 2
           /\ composed_pngs = <<>> /\ frames = <<>>
           /\ anim.kind \notin {"written", "broken"}
           /\ idx = Len(commits)
           /\ \A i \in 1..Len(commits) : stage[i] = "SKIPPED"
           /\ RestoreAttempted /\ ncheckouts = Len(commits) + 1

\* two commits, both dropped; the run ended with the exit for zero frames
C16_Witness ==
    /\ pc = "done" /\ exit_why = "no_frames" /\ exit_code = 2
    /\ Len(commits) = 2
    /\ anim.kind # "written"

(***************************************************************************)
(* A failed restore.                                                       *)
(***************************************************************************)
\* the exit code of a run that got past the loop, from the frames and the
\* encoding alone
OutcomeAfterLoop ==
    IF composed_pngs = <<>> THEN 2
    ELSE IF event = "encoded" THEN 0
    ELSE 1

\* the restore step goes on to the zero-frames test without ending the run and
\* with the list of saved strips as it was, whether the checkout succeeded or
\* not; a failed checkout leaves the working tree and the files alone
RestoreGoesOn ==
    pc = "restore" =>
        /\ pc' = "frames"
        /\ exit_code' = NotExited
        /\ UNCHANGED <<composed_pngs, stage>>
        /\ ~restore_ok' => UNCHANGED <<head, root_pdf, outfiles, anim>>

\* the exit code of the run from the zero-frames test on (lines 286-304), when
\* --out-dir holds `files`, imread fails at the `bad`-th strip (0: at none that
\* is there) and the encoder succeeds or not
exit_code_from(files, bad, encoded) ==
    IF composed_pngs = <<>> THEN 2
    ELSE IF Len(read_frames(files, composed_pngs, bad, 1)) < Len(composed_pngs) THEN 1
    ELSE IF encoded THEN 0
    ELSE 1

\* at the restore step outfiles is what a failed checkout leaves and outfiles'
\* what the checkout of this step, failed or successful, leaves: with the same
\* reads and the same encoder the run ends with the same exit code from both
RestoreKeepsExitCode ==
    pc = "restore" =>
        \A bad \in 0..Len(composed_pngs), encoded \in BOOLEAN :
            exit_code_from(outfiles', bad, encoded) = exit_code_from(outfiles, bad, encoded)

\* C17: after the restore checkout, failed or not, the driver goes to the
\* zero-frames test and, with at least one frame, to the assembly; the exit code
\* of a run that got past the loop is 2 with no frame, 0 with a frame and a
\* successful encoding, 1 when reading a strip or the encoding fails; and a
\* failed restore ends in the exit code the run would have had, had the restore
\* succeeded
C17_RestoreFailureNonFatal ==
    /\ [](/\ (RestoreAttempted /\ pc = "done") =>
                 /\ exit_code = OutcomeAfterLoop
                 /\ composed_pngs # <<>> => AssemblyEntered
                 /\ exit_code = 0 =>
                        anim = Written(frames) /\ Len(frames) = Len(composed_pngs)
          /\ event = "restore_failed" => pc \in {"frames", "assemble", "done"} /\ ~restore_ok)
    /\ [][RestoreGoesOn /\ RestoreKeepsExitCode]_vars

(***************************************************************************)
(* The files of the saved strips.                                          *)
(***************************************************************************)
\* the path the strip of the i-th commit is saved to
PathOf(i) == out_png(i, commits[i])

\* the strips saved to --out-dir in this run that are still there
WrittenStrips == {f \in outfiles : f.content.by # 0 /\ f.content # Damaged(f.content.by)}

\* a save writes the file of the commit being processed and no other file
SaveWritesOwnFile ==
    pc = "save" =>
        /\ \A f \in outfiles : f.name # PathOf(idx) => f \in outfiles'
        /\ \A f \in outfiles' : f.name # PathOf(idx) => f \in outfiles
        /\ pc' = "loop" => ContentOf(PathOf(idx))' = Strip(idx, composed_img.doc)

\* C18: the strip of a saved commit is in the file named by the commit's position
\* in the commit list, in four digits, and the abbreviated identifier; the names of
\* the saved commits are pairwise distinct; a save writes the file of its own
\* commit and leaves every other file as it is, so the file of a saved commit
\* never holds the strip composed for another commit; every file the run writes
\* is under the name of the commit it was composed for, and the k-th saved
\* strip keeps the position of its commit in the list, skipped commits leaving
\* gaps
C18_StripFileNames ==
    /\ [](LET saved == SavedCommits
          IN  /\ Len(composed_pngs) = Len(saved)
              /\ \A k \in 1..Len(composed_pngs) :
                     LET i == saved[k]
                     IN  /\ composed_pngs[k] = PathOf(i)
                         /\ file_name(composed_pngs[k]) =
                                <<"composed_">> \o Format04d(i)
                                    \o <<"_", short(commits[i]), ".png">>
                         /\ i < 10000 => Len(Format04d(i)) = 4
                         /\ \A f \in outfiles :
                                f.name = PathOf(i) => f.content.by \in {0, i}
              /\ \A k, l \in 1..Len(saved) :
                     k < l => file_name(PathOf(saved[k])) # file_name(PathOf(saved[l]))
              /\ \A f \in outfiles :
                     f.content.by # 0 =>
                         /\ f.name = PathOf(f.content.by)
                         /\ f.content # Damaged(f.content.by) =>
                                stage[f.content.by] = "SAVED")
    /\ [][SaveWritesOwnFile]_vars

\* two commits that share their first eight characters, both saved, to
\* composed_0001_... and composed_0002_...
C18_Witness ==
    /\ pc = "done" /\ Len(commits) = 2
    /\ stage[1] = "SAVED" /\ stage[2] = "SAVED"
    /\ short(commits[1]) = short(commits[2])
    /\ file_name(composed_pngs[1]) =
           <<"composed_", "0", "0", "0", "1", "_", "aaaaaaaa", ".png">>
    /\ file_name(composed_pngs[2]) =
           <<"composed_", "0", "0", "0", "2", "_", "aaaaaaaa", ".png">>
    /\ Cardinality(WrittenStrips) = 2

(***************************************************************************)
(* One commit at a time, on its own tree.                                  *)
(***************************************************************************)
\* labels between the checkout of a commit and the end of its processing
Processing == {"mktemp"} \cup InsideWith

\* the working tree is the detached checkout of the commit being processed
TreeAtCurrentCommit == head = [branch |-> NoBranch, commit |-> commits[idx]]

\* HEAD moves only at the two checkout steps, and the restore comes after the
\* last commit
CheckoutsOnlyBetweenCommits ==
    /\ head' # head => pc \in {"checkout", "restore"}
    /\ ncheckouts' # ncheckouts => pc \in {"checkout", "restore"}
    /\ pc \in Processing => (head' = head /\ idx' = idx)
    /\ idx' # idx => (pc = "loop" /\ idx' = idx + 1 /\ pc' = "checkout")
    /\ pc = "restore" => idx = Len(commits)

\* C19: the commits are taken in list order, every commit before the current one
\* being saved or skipped and every later one untouched; from the checkout of a
\* commit to the end of its processing, so whenever latexmk, pdflatex or pdftoppm
\* runs, the checkout of that commit has succeeded, it was the only checkout of
\* the iteration, and the working tree is at that commit; no checkout, the
\* restore included, happens in between
C19_SequentialOnOwnTree ==
    /\ [](/\ pc \in Processing =>
                 /\ TreeAtCurrentCommit
                 /\ calls[1] = Call("checkout", "ok") /\ ncalls.checkout = 1
                 /\ ncheckouts = idx
                 /\ stage[idx] \notin {"PENDING", "SKIPPED", "SAVED"}
          /\ \A i \in 1..Len(stage) :
                 /\ i < idx => stage[i] \in {"SAVED", "SKIPPED"}
                 /\ i > idx => stage[i] = "PENDING"
          /\ \A k \in 2..Len(calls) : calls[k].tool # "checkout")
    /\ [][CheckoutsOnlyBetweenCommits]_vars

\* the rasterizer is about to run for the second commit, on the tree of the
\* second commit, after the first commit was saved
C19_Witness ==
    /\ pc = "pdftoppm" /\ idx = 2
    /\ stage[1] = "SAVED"
    /\ TreeAtCurrentCommit
    /\ head0.commit # commits[2]

====
